---- MODULE Spec2Model ----
(***************************************************************************)
(* A model of mini-slcan: the SLCAN command decoder (Command::decode),     *)
(* the incremental command framer (CommandBuf / CommandIter), the encoders *)
(* of responses and notifications (write.rs) and the value types they use. *)
(*  Bytes are integers 0..255, byte strings are sequences. *)
(* A Rust array index i is the sequence index i + 1.                       *)
(***************************************************************************)
EXTENDS Integers, Sequences, FiniteSets, TLC

VARIABLES
    bytes,      \* CommandBuf::bytes, the 27-byte array
    used,       \* CommandBuf::used
    iter,       \* the CommandIter: "new" (none created yet), "open", "dropped"
    pos,        \* CommandIter::pos
    exhausted,  \* the last call of next() on the latest iterator returned None
    panicked,   \* an assertion or an overflow check has failed
    stream,     \* the bytes the caller receives from the serial line
    fed,        \* how many bytes of stream the caller has copied into the buffer
    amount,     \* the argument of the latest advance_by call
    snap,       \* history: bytes[..used] when the latest advance_by returned
    yielded,    \* history: the results the latest iterator has yielded
    results,    \* history: every result yielded since construction
    allFull,    \* history: every dropped iterator had been consumed to exhaustion
    resynced,   \* history: the iterator dropped last had been consumed to
                \* exhaustion over a full buffer that held no CR
    compactions,\* history: compactions run since the latest advance_by
    input,      \* the argument of the Command::decode or encode call, or the
                \* CanFrame that is pushed to
    output      \* the values returned since: of the call, and of the
                \* Command::decode call on an encoding if one was made

vars == <<bytes, used, iter, pos, exhausted, panicked, stream, fed, amount,
          snap, yielded, results, allFull, resynced, compactions, input,
          output>>

(***************************************************************************)
(* Bytes.                                                                  *)
(***************************************************************************)
Ascii == ("0" :> 48) @@ ("1" :> 49) @@ ("2" :> 50) @@ ("3" :> 51) @@
         ("4" :> 52) @@ ("5" :> 53) @@ ("6" :> 54) @@ ("7" :> 55) @@
         ("8" :> 56) @@ ("9" :> 57) @@ ("A" :> 65) @@ ("B" :> 66) @@
         ("C" :> 67) @@ ("D" :> 68) @@ ("E" :> 69) @@ ("F" :> 70) @@
         ("G" :> 71) @@ ("I" :> 73) @@ ("L" :> 76) @@ ("N" :> 78) @@
         ("O" :> 79) @@ ("R" :> 82) @@ ("S" :> 83) @@ ("T" :> 84) @@
         ("V" :> 86) @@ ("X" :> 88) @@ ("Z" :> 90) @@ ("a" :> 97) @@
         ("f" :> 102) @@ ("r" :> 114) @@ ("t" :> 116) @@ ("z" :> 122)

CR == 13

LF == 10

Bytes(chars) == [i \in 1..Len(chars) |-> Ascii[chars[i]]]

(***************************************************************************)
(* Error, ErrorKind (error.rs) and Result.                                 *)
(***************************************************************************)
ErrDecode == [ok |-> FALSE, kind |-> "Decode"]

ErrEof == [ok |-> FALSE, kind |-> "Eof"]

Ok(v) == [ok |-> TRUE, val |-> v]

\* the value a Reader method returns together with the Reader's new input
OkRest(v, rest) == [ok |-> TRUE, val |-> v, rest |-> rest]

(***************************************************************************)
(* Identifier, ExtIdentifier (identifier.rs).  A u32 that may exceed the   *)
(* checker's integers is kept as its two 16-bit halves.                    *)
(***************************************************************************)
U32(hi, lo) == [hi |-> hi, lo |-> lo]

\* val <<= 4; val |= nibble   (u32)
ShlOr4(val, nibble) ==
    U32(((val.hi * 16) % 65536) + (val.lo \div 4096),
        ((val.lo * 16) % 65536) + nibble)

Identifier_from_raw(raw) ==
    IF raw > 2047 THEN [some |-> FALSE] ELSE [some |-> TRUE, val |-> raw]

\* 30 bits let through
ExtIdentifier_from_raw_wide(raw) ==
    IF raw.hi > 16383
    THEN [some |-> FALSE]
    ELSE [some |-> TRUE, val |-> raw.hi * 65536 + raw.lo]

ExtIdentifier_from_raw(raw) ==
    IF raw.hi > 8191
    THEN [some |-> FALSE]
    ELSE [some |-> TRUE, val |-> raw.hi * 65536 + raw.lo]

(***************************************************************************)
(* CanFrame (lib.rs).                                                      *)
(***************************************************************************)
MAX_LENGTH == 8

CanFrame_new == [data |-> [i \in 1..MAX_LENGTH |-> 0], len |-> 0]

\* a full frame has its last byte overwritten
CanFrame_push_over(frame, byte) ==
    IF frame.len = MAX_LENGTH
    THEN [ok |-> FALSE, kind |-> "Eof",
          frame |-> [frame EXCEPT !.data[MAX_LENGTH] = byte]]
    ELSE [ok |-> TRUE,
          frame |-> [data |-> [frame.data EXCEPT ![frame.len + 1] = byte],
                     len |-> frame.len + 1]]

CanFrame_push(frame, byte) ==
    IF frame.len = MAX_LENGTH
    THEN [ok |-> FALSE, kind |-> "Eof", frame |-> frame]
    ELSE [ok |-> TRUE,
          frame |-> [data |-> [frame.data EXCEPT ![frame.len + 1] = byte],
                     len |-> frame.len + 1]]

CanFrame_data(frame) == SubSeq(frame.data, 1, frame.len)

\* CanFrame::data_mut: the indexes of data that the slice returned covers
CanFrame_data_mut(frame) == 1..frame.len

\* DerefMut for CanFrame
CanFrame_deref_mut(frame) == CanFrame_data_mut(frame)

(***************************************************************************)
(* Reader (read.rs).  Each method takes the remaining input and returns an *)
(* error, or the value read and the input left.                            *)
(***************************************************************************)
\* the `?` operator: an error returns at once, a value goes on
Try(r, F(_)) == IF r.ok THEN F(r) ELSE r

\* the end of the input reported as malformed
read_byte_decode(inp) ==
    IF inp = <<>> THEN ErrDecode ELSE OkRest(Head(inp), Tail(inp))

read_byte(inp) ==
    IF inp = <<>> THEN ErrEof ELSE OkRest(Head(inp), Tail(inp))

\* lowercase digits accepted too
unhex_lower(digit) ==
    IF digit \in 48..57 THEN Ok(digit - 48)
    ELSE IF digit \in 65..70 THEN Ok(digit - 65 + 10)
    ELSE IF digit \in 97..102 THEN Ok(digit - 97 + 10)
    ELSE ErrDecode

unhex(digit) ==
    IF digit \in 48..57 THEN Ok(digit - 48)
    ELSE IF digit \in 65..70 THEN Ok(digit - 65 + 10)
    ELSE ErrDecode

RECURSIVE read_hex_loop(_, _, _)
read_hex_loop(inp, digits, val) ==
    IF digits = 0 THEN OkRest(val, inp)
    ELSE Try(read_byte(inp), LAMBDA b :
         Try(unhex(b.val), LAMBDA d :
         read_hex_loop(b.rest, digits - 1, ShlOr4(val, d.val))))

read_hex_digits(inp, digits) == read_hex_loop(inp, digits, U32(0, 0))

\* `as u8`
read_hex_u4(inp) ==
    Try(read_hex_digits(inp, 1), LAMBDA r : OkRest(r.val.lo % 256, r.rest))

read_hex_u8(inp) ==
    Try(read_hex_digits(inp, 2), LAMBDA r : OkRest(r.val.lo % 256, r.rest))

\* Option::ok_or(Error::decode())
ok_or_decode(opt, rest) ==
    IF opt.some THEN OkRest(opt.val, rest) ELSE ErrDecode

\* `as u16`
read_hex_identifier(inp) ==
    Try(read_hex_digits(inp, 3), LAMBDA r :
        ok_or_decode(Identifier_from_raw(r.val.lo), r.rest))

read_hex_ext_identifier(inp) ==
    Try(read_hex_digits(inp, 8), LAMBDA r :
        ok_or_decode(ExtIdentifier_from_raw(r.val), r.rest))

\* a failed assert! or unwrap()
Panic == [ok |-> FALSE, kind |-> "Panic"]

\* frame.push(byte).unwrap()
push_unwrap(frame, byte) ==
    IF CanFrame_push(frame, byte).ok THEN CanFrame_push(frame, byte) ELSE Panic

RECURSIVE read_frame_loop(_, _, _)
read_frame_loop(inp, n, frame) ==
    IF n = 0 THEN OkRest(frame, inp)
    ELSE Try(read_hex_u8(inp), LAMBDA b :
         Try(push_unwrap(frame, b.val), LAMBDA p :
         read_frame_loop(b.rest, n - 1, p.frame)))

\* one payload byte too few read
read_frame_short(inp, len) ==
    IF len > 8 THEN Panic
    ELSE read_frame_loop(inp, IF len = 0 THEN 0 ELSE len - 1, CanFrame_new)

read_frame(inp, len) ==
    IF len > 8 THEN Panic ELSE read_frame_loop(inp, len, CanFrame_new)

(***************************************************************************)
(* Bitrate (lib.rs) and Command::decode (read.rs).                         *)
(***************************************************************************)
BitrateOfDigit ==
    (48 :> "_10kbit") @@ (49 :> "_20kbit") @@ (50 :> "_50kbit") @@
    (51 :> "_100kbit") @@ (52 :> "_125kbit") @@ (53 :> "_250kbit") @@
    (54 :> "_500kbit") @@ (55 :> "_800kbit") @@ (56 :> "_1mbit")

Bitrate_kbps ==
    ("_10kbit" :> 10) @@ ("_20kbit" :> 20) @@ ("_50kbit" :> 50) @@
    ("_100kbit" :> 100) @@ ("_125kbit" :> 125) @@ ("_250kbit" :> 250) @@
    ("_500kbit" :> 500) @@ ("_800kbit" :> 800) @@ ("_1mbit" :> 1000)

\* the arm `b'S' => { ... }`
decode_setup(rest) ==
    Try(read_byte(rest), LAMBDA b :
        IF b.val \in DOMAIN BitrateOfDigit
        THEN OkRest([tag |-> "SetupWithBitrate",
                     bitrate |-> BitrateOfDigit[b.val]], b.rest)
        ELSE ErrDecode)

\* the identifier field of the arms t, r (ext = FALSE) and T, R (ext = TRUE)
decode_identifier(rest, ext) ==
    IF ext THEN read_hex_ext_identifier(rest) ELSE read_hex_identifier(rest)

\* the arms `b't'` (ext = FALSE) and `b'T'` (ext = TRUE)
decode_tx(rest, ext) ==
    Try(decode_identifier(rest, ext), LAMBDA id :
    Try(read_hex_u4(id.rest), LAMBDA len :
        IF len.val > 8 THEN ErrDecode
        ELSE Try(read_frame(len.rest, len.val), LAMBDA fr :
             OkRest([tag |-> IF ext THEN "TxExt" ELSE "TxStandard",
                     identifier |-> id.val, frame |-> fr.val], fr.rest))))

\* the requested length not checked
decode_rtr_unchecked(rest, ext) ==
    Try(decode_identifier(rest, ext), LAMBDA id :
    Try(read_hex_u4(id.rest), LAMBDA len :
        OkRest([tag |-> IF ext THEN "TxExtRtr" ELSE "TxStandardRtr",
                identifier |-> id.val, len |-> len.val], len.rest)))

\* the arms `b'r'` (ext = FALSE) and `b'R'` (ext = TRUE)
decode_rtr(rest, ext) ==
    Try(decode_identifier(rest, ext), LAMBDA id :
    Try(read_hex_u4(id.rest), LAMBDA len :
        IF len.val > 8 THEN ErrDecode
        ELSE OkRest([tag |-> IF ext THEN "TxExtRtr" ELSE "TxStandardRtr",
                     identifier |-> id.val, len |-> len.val], len.rest)))

\* the arm `b'Z' => { ... }`
decode_timestamp(rest) ==
    Try(read_byte(rest), LAMBDA b :
        IF b.val = 48
        THEN OkRest([tag |-> "SetRxTimestamp", timestamp |-> FALSE], b.rest)
        ELSE IF b.val = 49
        THEN OkRest([tag |-> "SetRxTimestamp", timestamp |-> TRUE], b.rest)
        ELSE ErrDecode)

\* `let cmd = match op { ... }`
decode_match(op, rest) ==
    CASE op = 83  -> decode_setup(rest)
      [] op = 79  -> OkRest([tag |-> "Open"], rest)
      [] op = 67  -> OkRest([tag |-> "Close"], rest)
      [] op = 116 -> decode_tx(rest, FALSE)
      [] op = 84  -> decode_tx(rest, TRUE)
      [] op = 114 -> decode_rtr(rest, FALSE)
      [] op = 82  -> decode_rtr(rest, TRUE)
      [] op = 70  -> OkRest([tag |-> "ReadStatus"], rest)
      [] op = 86  -> OkRest([tag |-> "ReadVersion"], rest)
      [] op = 78  -> OkRest([tag |-> "ReadSerial"], rest)
      [] op = 90  -> decode_timestamp(rest)
      [] OTHER    -> ErrDecode

\* trailing data after the CR let through
decode_end_lax(cmd, rest) ==
    Try(read_byte(rest), LAMBDA t :
        IF t.val # CR THEN ErrDecode ELSE Ok(cmd))

\* the terminator and trailing-data checks that end Command::decode
decode_end(cmd, rest) ==
    Try(read_byte(rest), LAMBDA t :
        IF t.val # CR THEN ErrDecode
        ELSE IF t.rest # <<>> THEN ErrDecode
        ELSE Ok(cmd))

Command_decode(inp) ==
    Try(read_byte(inp), LAMBDA op :
    Try(decode_match(op.val, op.rest), LAMBDA cmd :
        decode_end(cmd.val, cmd.rest)))

(***************************************************************************)
(* CommandBuf and CommandIter (read.rs).                                   *)
(***************************************************************************)
MAX_ENCODED_LEN == 1 + 8 + 1 + 16 + 1

CommandBuf_new == [bytes |-> [i \in 1..MAX_ENCODED_LEN |-> 0], used |-> 0]

\* the indices of the slice tail_mut returns
tail_mut(u) == u..(MAX_ENCODED_LEN - 1)

\* full one byte early
is_full_early(u) == u >= MAX_ENCODED_LEN - 1

\* never full
is_full_never(u) == u = MAX_ENCODED_LEN + 1

is_full(u) == u = MAX_ENCODED_LEN

None == [some |-> FALSE]

Some(v) == [some |-> TRUE, val |-> v]

\* the last CR instead of the first
find_cr_last(b, u, start) ==
    LET found == {i \in start..(u - 1) : b[i + 1] = CR} IN
    IF found = {} THEN None
    ELSE Some(CHOOSE i \in found : \A j \in found : i >= j)

find_cr(b, u, start) ==
    LET found == {i \in start..(u - 1) : b[i + 1] = CR} IN
    IF found = {} THEN None
    ELSE Some(CHOOSE i \in found : \A j \in found : i <= j)

\* tail_mut()[..chunk.len()].copy_from_slice(chunk)
copy_from_slice(b, u, chunk) ==
    [i \in 1..MAX_ENCODED_LEN |->
        IF i > u /\ i <= u + Len(chunk) THEN chunk[i - u] ELSE b[i]]

\* an overflow that marks `by` bytes too few as consumed
CommandIter_next_off(b, u, p, by) ==
    LET end == find_cr(b, u, p) IN
    IF p > u \/ u > MAX_ENCODED_LEN
    THEN [panic |-> TRUE, item |-> None, pos |-> p]
    ELSE IF end.some
    THEN [panic |-> FALSE,
          item |-> Some(Command_decode(SubSeq(b, p + 1, end.val + 1))),
          pos |-> p + Len(SubSeq(b, p + 1, end.val + 1))]
    ELSE IF p = 0 /\ is_full(u)
         THEN [panic |-> FALSE, item |-> Some(ErrDecode),
               pos |-> MAX_ENCODED_LEN - by]
         ELSE [panic |-> FALSE, item |-> None, pos |-> p]

CommandIter_next_short(b, u, p) == CommandIter_next_off(b, u, p, 1)

\* an overflow that marks one byte too many as consumed
CommandIter_next_long(b, u, p) == CommandIter_next_off(b, u, p, 0 - 1)

\* the overflow reported wherever the scan stands
CommandIter_next_anypos(b, u, p) ==
    LET end == find_cr(b, u, p) IN
    IF p > u \/ u > MAX_ENCODED_LEN
    THEN [panic |-> TRUE, item |-> None, pos |-> p]
    ELSE IF end.some
    THEN [panic |-> FALSE,
          item |-> Some(Command_decode(SubSeq(b, p + 1, end.val + 1))),
          pos |-> p + Len(SubSeq(b, p + 1, end.val + 1))]
    ELSE IF is_full(u) /\ p < u
         THEN [panic |-> FALSE, item |-> Some(ErrDecode),
               pos |-> MAX_ENCODED_LEN]
         ELSE [panic |-> FALSE, item |-> None, pos |-> p]

\* the span handed to the decoder without its CR
CommandIter_next_exclusive(b, u, p) ==
    LET end == find_cr(b, u, p) IN
    IF p > u \/ u > MAX_ENCODED_LEN
    THEN [panic |-> TRUE, item |-> None, pos |-> p]
    ELSE IF end.some
    THEN [panic |-> FALSE,
          item |-> Some(Command_decode(SubSeq(b, p + 1, end.val))),
          pos |-> p + Len(SubSeq(b, p + 1, end.val + 1))]
    ELSE IF p = 0 /\ is_full(u)
         THEN [panic |-> FALSE, item |-> Some(ErrDecode),
               pos |-> MAX_ENCODED_LEN]
         ELSE [panic |-> FALSE, item |-> None, pos |-> p]

\* one byte after the span marked as consumed too
CommandIter_next_skip(b, u, p) ==
    LET end == find_cr(b, u, p) IN
    IF p > u \/ u > MAX_ENCODED_LEN
    THEN [panic |-> TRUE, item |-> None, pos |-> p]
    ELSE IF end.some
    THEN [panic |-> FALSE,
          item |-> Some(Command_decode(SubSeq(b, p + 1, end.val + 1))),
          pos |-> p + Len(SubSeq(b, p + 1, end.val + 1)) + 1]
    ELSE IF p = 0 /\ is_full(u)
         THEN [panic |-> FALSE, item |-> Some(ErrDecode),
               pos |-> MAX_ENCODED_LEN]
         ELSE [panic |-> FALSE, item |-> None, pos |-> p]

\* CommandIter::next: the item returned and the iterator's new pos; the
\* slice bytes[pos..used] of find_cr panics unless pos <= used <= 27
CommandIter_next(b, u, p) ==
    LET end == find_cr(b, u, p) IN
    IF p > u \/ u > MAX_ENCODED_LEN
    THEN [panic |-> TRUE, item |-> None, pos |-> p]
    ELSE IF end.some
    THEN [panic |-> FALSE,
          item |-> Some(Command_decode(SubSeq(b, p + 1, end.val + 1))),
          pos |-> p + Len(SubSeq(b, p + 1, end.val + 1))]
    ELSE IF p = 0 /\ is_full(u)
         THEN [panic |-> FALSE, item |-> Some(ErrDecode),
               pos |-> MAX_ENCODED_LEN]
         ELSE [panic |-> FALSE, item |-> None, pos |-> p]

\* a compaction that moves nothing
copy_within_nothing(b, decoded_end) == b

\* bytes.copy_within(decoded_end.., 0)
copy_within(b, decoded_end) ==
    [i \in 1..MAX_ENCODED_LEN |->
        IF i <= MAX_ENCODED_LEN - decoded_end THEN b[i + decoded_end] ELSE b[i]]

(***************************************************************************)
(* The serial line: the streams a caller may receive.                      *)
(***************************************************************************)
MaxPieces == 2

Fill == [i \in 1..MAX_ENCODED_LEN |-> Ascii["X"]]

TxExtFull ==
    Bytes(<<"T", "1", "1", "1", "1", "1", "1", "1", "1", "8",
            "4", "1", "4", "2", "4", "3", "4", "4", "4", "5", "4", "6",
            "4", "7", "4", "8">>) \o <<CR>>

Setup0 == Bytes(<<"S", "0">>) \o <<CR>>

Pieces ==
    { Setup0,
      <<CR>>,
      Bytes(<<"S", "0">>),
      Fill,
      TxExtFull }

RECURSIVE StreamsOf(_)
StreamsOf(k) ==
    IF k = 0 THEN {<<>>}
    ELSE {s \o p : s \in StreamsOf(k - 1), p \in Pieces \cup {<<>>}}

Streams == StreamsOf(MaxPieces)

(***************************************************************************)
(* The framer as a state machine: a caller that copies the next bytes of   *)
(* the stream into the tail and calls advance_by (read/tests.rs,           *)
(* cmdbuf_decode), calls next() on the iterator, and drops it.             *)
(***************************************************************************)
Min(a, b) == IF a < b THEN a ELSE b

NoCR(s) == \A i \in 1..Len(s) : s[i] # CR

Init ==
    /\ bytes = CommandBuf_new.bytes
    /\ used = CommandBuf_new.used
    /\ iter = "new"
    /\ pos = 0
    /\ exhausted = FALSE
    /\ panicked = FALSE
    /\ stream \in Streams
    /\ fed = 0
    /\ amount = 0
    /\ snap = <<>>
    /\ yielded = <<>>
    /\ results = <<>>
    /\ allFull = TRUE
    /\ resynced = FALSE
    /\ compactions = 0
    /\ input = <<>>
    /\ output = <<>>

\* `self.used += amount` on a u8: [used, panic] with overflow checks on or off
add_u8(u, amt, overflow_checks) ==
    IF u + amt > 255
    THEN [used |-> IF overflow_checks THEN u ELSE (u + amt) % 256,
          panic |-> overflow_checks]
    ELSE [used |-> u + amt, panic |-> FALSE]

\* advance_by(amt), the caller having copied chunk into the tail before
advance_by(chunk, amt, overflow_checks) ==
    LET b == copy_from_slice(bytes, used, chunk)
        sum == add_u8(used, amt, overflow_checks)
        fails == sum.panic \/ sum.used > MAX_ENCODED_LEN
    IN  /\ bytes' = b
        /\ used' = sum.used
        /\ fed' = fed + Len(chunk)
        /\ amount' = amt
        /\ panicked' = fails
        /\ iter' = IF fails THEN iter ELSE "open"
        /\ pos' = IF fails THEN pos ELSE 0
        /\ exhausted' = IF fails THEN exhausted ELSE FALSE
        /\ snap' = IF fails THEN snap ELSE SubSeq(b, 1, sum.used)
        /\ yielded' = IF fails THEN yielded ELSE <<>>
        /\ compactions' = IF fails THEN compactions ELSE 0
        /\ UNCHANGED <<stream, results, allFull, resynced, input, output>>

\* the caller appends the next amt bytes of the stream; they fit the tail
Feed(amt) ==
    /\ iter # "open"
    /\ ~panicked
    /\ amt <= Min(Cardinality(tail_mut(used)), Len(stream) - fed)
    /\ advance_by(SubSeq(stream, fed + 1, fed + amt), amt, TRUE)

\* what a call of next() that returns r leaves behind
returned(r) ==
    /\ panicked' = r.panic
    /\ pos' = r.pos
    /\ exhausted' = (~r.panic /\ ~r.item.some)
    /\ yielded' = IF r.item.some THEN Append(yielded, r.item.val) ELSE yielded
    /\ results' = IF r.item.some THEN Append(results, r.item.val) ELSE results

\* one call of next() on the live iterator
IterNext ==
    /\ iter = "open"
    /\ ~panicked
    /\ returned(CommandIter_next(bytes, used, pos))
    /\ UNCHANGED <<bytes, used, iter, stream, fed, amount, snap,
                   allFull, resynced, compactions, input, output>>

\* used left as it was
sub_u8_keep(u, d, overflow_checks) == [used |-> u, panic |-> FALSE]

\* the buffer emptied
sub_u8_clear(u, d, overflow_checks) == [used |-> 0, panic |-> FALSE]

\* `self.buf.used -= decoded_end as u8` on a u8
sub_u8(u, d, overflow_checks) ==
    IF u >= d THEN [used |-> u - d, panic |-> FALSE]
    ELSE [used |-> IF overflow_checks THEN u ELSE (u - d) % 256,
          panic |-> overflow_checks]

\* Drop for CommandIter: the compaction; the range decoded_end.. of
\* copy_within panics when decoded_end is beyond the array
CommandIter_drop(overflow_checks) ==
    IF pos > MAX_ENCODED_LEN
    THEN panicked' = TRUE /\ UNCHANGED <<bytes, used, compactions>>
    ELSE /\ bytes' = copy_within(bytes, pos)
         /\ used' = sub_u8(used, pos, overflow_checks).used
         /\ panicked' = sub_u8(used, pos, overflow_checks).panic
         /\ compactions' = compactions + 1

\* the live iterator goes out of scope, exhausted or not
IterDrop ==
    /\ iter = "open"
    /\ ~panicked
    /\ \E overflow_checks \in (IF used >= pos THEN {TRUE} ELSE BOOLEAN) :
          CommandIter_drop(overflow_checks)
    /\ iter' = "dropped"
    /\ allFull' = (allFull /\ exhausted)
    /\ resynced' = (exhausted /\ Len(snap) = MAX_ENCODED_LEN /\ NoCR(snap))
    /\ UNCHANGED <<pos, exhausted, stream, fed, amount, snap, yielded,
                   results, input, output>>

\* the end of `for res in buf.advance_by(n) { ... }`: next() has returned None
ForEnd == exhausted /\ IterDrop

\* a caller that consumes every iterator with a for loop
Next ==
    \/ \E amt \in 0..MAX_ENCODED_LEN : Feed(amt)
    \/ IterNext
    \/ ForEnd

Spec == Init /\ [][Next]_vars

\* a caller that may also drop an iterator before it is exhausted; every
\* iterator is dropped, none is leaked (SpecLeak has the leaks)
NextAbandon ==
    \/ \E amt \in 0..MAX_ENCODED_LEN : Feed(amt)
    \/ IterNext
    \/ IterDrop

SpecAbandon == Init /\ [][NextAbandon]_vars

\* amounts beyond the tail: one too many, and two that overflow the u8
MisuseAmounts(u) ==
    {a \in {MAX_ENCODED_LEN - u + 1, 256 - u, 255} : a <= 255}

\* the caller fills the tail as far as the stream goes and passes an amount
\* that is larger than the tail
Misuse(amt) ==
    /\ iter # "open"
    /\ ~panicked
    /\ amt \in MisuseAmounts(used)
    /\ \E overflow_checks \in BOOLEAN :
          advance_by(SubSeq(stream, fed + 1,
                            fed + Min(Cardinality(tail_mut(used)),
                                      Len(stream) - fed)),
                     amt, overflow_checks)

\* a caller that may pass any amount to advance_by
NextMisuse ==
    \/ \E amt \in 0..MAX_ENCODED_LEN : Feed(amt)
    \/ IterNext
    \/ ForEnd
    \/ \E amt \in 1..255 : Misuse(amt)

\* a data frame that declares 9 payload bytes
TxLen9 == Bytes(<<"t", "0", "0", "0", "9">>) \o <<CR>>

\* the same construction, with a stream of at most one piece to receive
InitMisuse ==
    /\ bytes = CommandBuf_new.bytes
    /\ used = CommandBuf_new.used
    /\ iter = "new"
    /\ pos = 0
    /\ exhausted = FALSE
    /\ panicked = FALSE
    /\ stream \in StreamsOf(1) \cup {TxLen9}
    /\ fed = 0
    /\ amount = 0
    /\ snap = <<>>
    /\ yielded = <<>>
    /\ results = <<>>
    /\ allFull = TRUE
    /\ resynced = FALSE
    /\ compactions = 0
    /\ input = <<>>
    /\ output = <<>>

SpecMisuse == InitMisuse /\ [][NextMisuse]_vars

(***************************************************************************)
(* The framer with a caller that may also leak an iterator.  advance_by    *)
(* hands the iterator to the caller by value, and core::mem::forget, a     *)
(* safe function, takes a value without running its Drop.                  *)
(***************************************************************************)
MaxLeakedResults == 3

\* mem::forget(iterator): the iterator is gone, its borrow of the buffer has
\* ended and Drop for CommandIter has not run
IterForget ==
    /\ iter = "open"
    /\ ~panicked
    /\ Len(results) < MaxLeakedResults
    /\ iter' = "leaked"
    /\ allFull' = (allFull /\ exhausted)
    /\ resynced' = FALSE
    /\ UNCHANGED <<bytes, used, pos, exhausted, panicked, stream, fed, amount,
                   snap, yielded, results, compactions, input, output>>

\* a caller that ends a drain in any way Rust allows: exhausted and dropped,
\* dropped early, or leaked
NextLeak ==
    \/ \E amt \in 0..MAX_ENCODED_LEN : Feed(amt)
    \/ IterNext
    \/ IterDrop
    \/ IterForget

SpecLeak == InitMisuse /\ [][NextLeak]_vars

(***************************************************************************)
(* The framer on streams of commands that were cut short: one of them      *)
(* with a CR after it, and one more with none.                             *)
(***************************************************************************)
CutCommands ==
    { <<>>,
      Bytes(<<"C">>),
      Bytes(<<"S">>),
      Bytes(<<"Z">>),
      Bytes(<<"r", "1", "2">>),
      Bytes(<<"t", "7", "F", "F">>),
      Bytes(<<"T", "1", "1", "1", "1">>),
      Bytes(<<"t", "7", "F", "F", "2", "A", "A">>) }

InitCut ==
    /\ bytes = CommandBuf_new.bytes
    /\ used = CommandBuf_new.used
    /\ iter = "new"
    /\ pos = 0
    /\ exhausted = FALSE
    /\ panicked = FALSE
    /\ stream \in {c \o <<CR>> \o d : c \in CutCommands, d \in CutCommands}
    /\ fed = 0
    /\ amount = 0
    /\ snap = <<>>
    /\ yielded = <<>>
    /\ results = <<>>
    /\ allFull = TRUE
    /\ resynced = FALSE
    /\ compactions = 0
    /\ input = <<>>
    /\ output = <<>>

SpecCut == InitCut /\ [][NextAbandon]_vars

(***************************************************************************)
(* Command::decode called on its own: the inputs are every string of at    *)
(* most MaxShort bytes over ShortAlphabet, and the frame commands built    *)
(* from the fields below.                                                  *)
(***************************************************************************)
MaxShort == 3

ShortAlphabet ==
    {Ascii[c] : c \in {"S", "O", "C", "F", "V", "N", "Z", "I", "t",
                       "0", "1", "8", "9"}} \cup {CR, LF}

RECURSIVE StringsOf(_, _)
StringsOf(alphabet, n) ==
    IF n = 0 THEN {<<>>}
    ELSE LET shorter == StringsOf(alphabet, n - 1) IN
         shorter \cup {Append(s, c) : s \in shorter, c \in alphabet}

IdFields ==
    { Bytes(<<"0", "0", "0">>), Bytes(<<"7", "F", "F">>),
      Bytes(<<"8", "0", "0">>), Bytes(<<"7", "f", "F">>),
      Bytes(<<"1", "2">>),
      Bytes(<<"1", "1", "1", "1", "1", "1", "1", "1">>),
      Bytes(<<"1", "F", "F", "F", "F", "F", "F", "F">>),
      Bytes(<<"2", "0", "0", "0", "0", "0", "0", "0">>),
      Bytes(<<"F", "F", "F", "F", "F", "F", "F", "F">>),
      Bytes(<<"1", "f", "F", "F", "F", "F", "F", "F">>) }

LenDigits == {Ascii[c] : c \in {"0", "1", "2", "8", "9", "F", "f"}}

Payloads ==
    { <<>>,
      Bytes(<<"A">>),
      Bytes(<<"A", "A">>),
      Bytes(<<"0", "a">>),
      Bytes(<<"A", "A", "B", "B">>),
      Bytes(<<"0", "0", "0", "1", "0", "2", "0", "3",
              "0", "4", "0", "5", "0", "6", "0", "7">>),
      Bytes(<<"4", "1", "4", "2", "4", "3", "4", "4",
              "4", "5", "4", "6", "4", "7", "4", "8">>),
      Bytes(<<"0", "0", "0", "1", "0", "2", "0", "3",
              "0", "4", "0", "5", "0", "6", "0", "7", "0", "8">>) }

Endings == {<<CR>>, <<LF>>, <<>>, <<CR, CR>>, <<CR, Ascii["S"]>>}

FrameInputs ==
    {<<op>> \o id \o <<len>> \o payload \o ending :
        op \in {Ascii["t"], Ascii["T"], Ascii["r"], Ascii["R"]},
        id \in IdFields, len \in LenDigits, payload \in Payloads,
        ending \in Endings}

\* S with every digit, and with bytes next to the digits
SetupInputs ==
    {<<Ascii["S"], d, CR>> : d \in (47..58) \cup {Ascii["A"], Ascii["a"]}}

DecodeInputs ==
    StringsOf(ShortAlphabet, MaxShort) \cup FrameInputs \cup SetupInputs

InitDecode ==
    /\ bytes = CommandBuf_new.bytes
    /\ used = CommandBuf_new.used
    /\ iter = "new"
    /\ pos = 0
    /\ exhausted = FALSE
    /\ panicked = FALSE
    /\ stream = <<>>
    /\ fed = 0
    /\ amount = 0
    /\ snap = <<>>
    /\ yielded = <<>>
    /\ results = <<>>
    /\ allFull = TRUE
    /\ resynced = FALSE
    /\ compactions = 0
    /\ input \in DecodeInputs
    /\ output = <<>>

\* the call Command::decode(input)
Decode ==
    /\ output = <<>>
    /\ output' = <<Command_decode(input)>>
    /\ UNCHANGED <<bytes, used, iter, pos, exhausted, panicked, stream, fed,
                   amount, snap, yielded, results, allFull, resynced,
                   compactions, input>>

NextDecode == Decode

SpecDecode == InitDecode /\ [][NextDecode]_vars

(***************************************************************************)
(* Writer (write.rs).  The Writer's slice is the part of the array arr     *)
(* from the Rust index off on; a method returns an error, or the Writer    *)
(* after the write.                                                        *)
(***************************************************************************)
MAX_RESPONSE_LEN == 6

MAX_NOTIF_LEN == 1 + 8 + 1 + 16 + 4 + 1

\* ResponseBuf::new, NotificationBuf::new
Buf_new(len) == [i \in 1..len |-> 0]

Writer(arr, off) == [arr |-> arr, off |-> off]

OkWriter(w) == [ok |-> TRUE, w |-> w]

Writer_write(w, byte) ==
    IF w.off = Len(w.arr)
    THEN ErrEof
    ELSE OkWriter(Writer([w.arr EXCEPT ![w.off + 1] = byte], w.off + 1))

\* the digits A..F written in lowercase
hex_lower(nibble) ==
    IF nibble \in 0..9 THEN Ok(48 + nibble)
    ELSE IF nibble \in 10..15 THEN Ok(97 + nibble - 10)
    ELSE Panic

hex(nibble) ==
    IF nibble \in 0..9 THEN Ok(48 + nibble)
    ELSE IF nibble \in 10..15 THEN Ok(65 + nibble - 10)
    ELSE Panic

\* the loop of write_hex, with `left` iterations to go
RECURSIVE write_hex_loop(_, _, _, _)
write_hex_loop(w, value, shift, left) ==
    IF left = 0 THEN OkWriter(w)
    ELSE Try(hex(((value \div 2^(shift - 4)) % 16) % 256), LAMBDA h :
         Try(Writer_write(w, h.val), LAMBDA r :
         write_hex_loop(r.w, value, shift - 4, left - 1)))

write_hex(w, value, digits) ==
    write_hex_loop(w, value, (digits * 4) % 256, digits)

write_hex_u4(w, val) == write_hex(w, val, 1)

write_hex_u8(w, val) == write_hex(w, val, 2)

write_hex_u16(w, val) == write_hex(w, val, 4)

write_identifier(w, id) == write_hex(w, id, 3)

\* seven digits for the 29 bits
write_ext_identifier_short(w, id) == write_hex(w, id, 7)

write_ext_identifier(w, id) == write_hex(w, id, 8)

\* `for b in frame.data() { self.write_hex_u8(*b)?; }`
RECURSIVE write_frame_loop(_, _)
write_frame_loop(w, data) ==
    IF data = <<>> THEN OkWriter(w)
    ELSE Try(write_hex_u8(w, Head(data)), LAMBDA r :
             write_frame_loop(r.w, Tail(data)))

\* the length digit left out
write_frame_bare(w, frame) == write_frame_loop(w, CanFrame_data(frame))

write_frame(w, frame) ==
    Try(write_hex_u4(w, frame.len % 256), LAMBDA r :
        write_frame_loop(r.w, CanFrame_data(frame)))

\* `Ok(&buf.0[..used])` with used = buf.0.len() - remaining
written(r) ==
    IF r.ok
    THEN Ok(SubSeq(r.w.arr, 1, Len(r.w.arr) - (Len(r.w.arr) - r.w.off)))
    ELSE r

(***************************************************************************)
(* Response, Notification, TimestampedNotification (write.rs) and the      *)
(* values they are built from (lib.rs).                                    *)
(***************************************************************************)
\* u8::is_ascii_alphanumeric
is_ascii_alphanumeric(b) == b \in 48..57 \/ b \in 65..90 \/ b \in 97..122

SerialNumber_new(raw) ==
    IF \A i \in 1..4 : is_ascii_alphanumeric(raw[i])
    THEN [some |-> TRUE, val |-> raw]
    ELSE [some |-> FALSE]

\* `impl From<[u8; $len]> for CanFrame`
CanFrame_from(arr) ==
    [data |-> [i \in 1..MAX_LENGTH |-> IF i <= Len(arr) THEN arr[i] ELSE 0],
     len |-> Len(arr)]

\* `for byte in &serial.0 { writer.write(*byte)?; }`
RECURSIVE write_serial_loop(_, _)
write_serial_loop(w, raw) ==
    IF raw = <<>> THEN OkWriter(w)
    ELSE Try(Writer_write(w, Head(raw)), LAMBDA r :
             write_serial_loop(r.w, Tail(raw)))

\* the match of Response::encode, on the Writer w
Response_write(resp, w) ==
    CASE resp.tag = "Error" -> Writer_write(w, 7)
      [] resp.tag = "Ack" -> Writer_write(w, CR)
      [] resp.tag = "TxAck" ->
            Try(Writer_write(w, 122), LAMBDA r : Writer_write(r.w, CR))
      [] resp.tag = "ExtTxAck" ->
            Try(Writer_write(w, 90), LAMBDA r : Writer_write(r.w, CR))
      [] resp.tag = "Status" ->
            Try(Writer_write(w, 70), LAMBDA r :
            Try(write_hex_u8(r.w, resp.bits), LAMBDA q :
                Writer_write(q.w, CR)))
      [] resp.tag = "Version" ->
            Try(Writer_write(w, 86), LAMBDA r :
            Try(write_hex_u8(r.w, resp.hardware_version), LAMBDA q :
            Try(write_hex_u8(q.w, resp.software_version), LAMBDA p :
                Writer_write(p.w, CR))))
      [] resp.tag = "Serial" ->
            Try(Writer_write(w, 78), LAMBDA r :
            Try(write_serial_loop(r.w, resp.serial), LAMBDA q :
                Writer_write(q.w, CR)))

Response_encode(resp) ==
    written(Response_write(resp, Writer(Buf_new(MAX_RESPONSE_LEN), 0)))

\* the match of Notification::encode, on the Writer w
Notification_write(notif, w) ==
    CASE notif.tag = "Rx" ->
            Try(Writer_write(w, 116), LAMBDA r :
            Try(write_identifier(r.w, notif.identifier), LAMBDA q :
                write_frame(q.w, notif.frame)))
      [] notif.tag = "RxExt" ->
            Try(Writer_write(w, 84), LAMBDA r :
            Try(write_ext_identifier(r.w, notif.identifier), LAMBDA q :
                write_frame(q.w, notif.frame)))
      [] notif.tag = "RxRtr" ->
            Try(Writer_write(w, 114), LAMBDA r :
            Try(write_identifier(r.w, notif.identifier), LAMBDA q :
                write_hex_u4(q.w, notif.len)))
      [] notif.tag = "RxExtRtr" ->
            Try(Writer_write(w, 82), LAMBDA r :
            Try(write_ext_identifier(r.w, notif.identifier), LAMBDA q :
                write_hex_u4(q.w, notif.len)))

Notification_encode(notif) ==
    written(Notification_write(notif, Writer(Buf_new(MAX_NOTIF_LEN), 0)))

\* the timestamp written over the end of the notification
TimestampedNotification_encode_over(tn) ==
    Try(Notification_write(tn.notif, Writer(Buf_new(MAX_NOTIF_LEN), 0)),
        LAMBDA r :
            written(write_hex_u16(
                Writer(r.w.arr, Len(written(r).val) - 4), tn.timestamp)))

\* `used` is the length of the slice Notification::encode returns; the
\* second Writer is over buf.0[used..]
TimestampedNotification_encode(tn) ==
    Try(Notification_write(tn.notif, Writer(Buf_new(MAX_NOTIF_LEN), 0)),
        LAMBDA r :
            written(write_hex_u16(
                Writer(r.w.arr, Len(written(r).val)), tn.timestamp)))

(***************************************************************************)
(* The encoders called on their own, and Command::decode called on the     *)
(* encoding of a notification with a CR appended.  The values encoded are  *)
(* built with the constructors of the crate.                               *)
(***************************************************************************)
\* Status: every set of the seven flags (bit 4 is no flag)
StatusValues == {b \in 0..255 : (b \div 16) % 2 = 0}

VersionBytes == {0, 1, 2, 10, 15, 16, 171, 255}

SerialNumbers ==
    {SerialNumber_new(raw).val :
        raw \in {r \in [1..4 -> {48, 90, 122, CR}] : SerialNumber_new(r).some}}
    \cup {SerialNumber_new(Bytes(<<"T", "E", "S", "T">>)).val}

Responses ==
    {[tag |-> t] : t \in {"Error", "Ack", "TxAck", "ExtTxAck"}}
    \cup {[tag |-> "Status", bits |-> b] : b \in StatusValues}
    \cup {[tag |-> "Version", hardware_version |-> h, software_version |-> v] :
            h \in VersionBytes, v \in VersionBytes}
    \cup {[tag |-> "Serial", serial |-> n] : n \in SerialNumbers}

Identifiers ==
    {Identifier_from_raw(raw).val :
        raw \in {r \in {0, 171, 256, 2047, 2048} : Identifier_from_raw(r).some}}

ExtIdentifiers ==
    {ExtIdentifier_from_raw(raw).val :
        raw \in {r \in {U32(0, 0), U32(0, 256), U32(4660, 22136),
                        U32(8191, 65535), U32(8192, 0)} :
                    ExtIdentifier_from_raw(r).some}}

Frames ==
    {CanFrame_from(arr) :
        arr \in {<<>>, <<0>>, <<10>>, <<255>>, <<17, 51>>,
                 <<0, 1, 2, 3, 4, 5, 6, 7>>,
                 <<65, 66, 67, 68, 69, 70, 71, 72>>,
                 <<171, 205, 239, 1, 35, 69, 103, 137>>}}

\* the field len of RxRtr and RxExtRtr is a u8 the caller sets
RtrLens == {0, 1, 5, 8, 9, 15, 16, 255}

Notifications ==
    {[tag |-> "Rx", identifier |-> id, frame |-> f] :
        id \in Identifiers, f \in Frames}
    \cup {[tag |-> "RxExt", identifier |-> id, frame |-> f] :
            id \in ExtIdentifiers, f \in Frames}
    \cup {[tag |-> "RxRtr", identifier |-> id, len |-> n] :
            id \in Identifiers, n \in RtrLens}
    \cup {[tag |-> "RxExtRtr", identifier |-> id, len |-> n] :
            id \in ExtIdentifiers, n \in RtrLens}

Timestamps == {0, 1, 171, 4660, 59999, 60000, 65535}

\* TimestampedNotification::new
TimestampedNotification_new(notif, timestamp) ==
    [notif |-> notif, timestamp |-> timestamp]

EncodeInputs ==
    {[kind |-> "Response", val |-> r] : r \in Responses}
    \cup {[kind |-> "Notification", val |-> n] : n \in Notifications}
    \cup {[kind |-> "Timestamped", val |-> TimestampedNotification_new(n, t)] :
            n \in Notifications, t \in Timestamps}

InitEncode ==
    /\ bytes = CommandBuf_new.bytes
    /\ used = CommandBuf_new.used
    /\ iter = "new"
    /\ pos = 0
    /\ exhausted = FALSE
    /\ panicked = FALSE
    /\ stream = <<>>
    /\ fed = 0
    /\ amount = 0
    /\ snap = <<>>
    /\ yielded = <<>>
    /\ results = <<>>
    /\ allFull = TRUE
    /\ resynced = FALSE
    /\ compactions = 0
    /\ input \in EncodeInputs
    /\ output = <<>>

\* what an encoder call or a decode call leaves alone
OnlyOutput ==
    UNCHANGED <<bytes, used, iter, pos, exhausted, panicked, stream, fed,
                amount, snap, yielded, results, allFull, resynced,
                compactions, input>>

\* the call Response::encode(&input, &mut ResponseBuf::new())
EncodeResponse ==
    /\ input.kind = "Response"
    /\ output = <<>>
    /\ output' = <<Response_encode(input.val)>>
    /\ OnlyOutput

\* the call Notification::encode(&input, &mut NotificationBuf::new())
EncodeNotification ==
    /\ input.kind = "Notification"
    /\ output = <<>>
    /\ output' = <<Notification_encode(input.val)>>
    /\ OnlyOutput

\* the call TimestampedNotification::encode(&input, ..)
EncodeTimestamped ==
    /\ input.kind = "Timestamped"
    /\ output = <<>>
    /\ output' = <<TimestampedNotification_encode(input.val)>>
    /\ OnlyOutput

\* Command::decode called on the encoding of a notification and a CR
DecodeEncoding ==
    /\ input.kind = "Notification"
    /\ Len(output) = 1
    /\ output[1].ok
    /\ output' = Append(output, Command_decode(Append(output[1].val, CR)))
    /\ OnlyOutput

NextEncode ==
    \/ EncodeResponse
    \/ EncodeNotification
    \/ EncodeTimestamped
    \/ DecodeEncoding

SpecEncode == InitEncode /\ [][NextEncode]_vars

(***************************************************************************)
(* CanFrame::push called again and again on one frame, whose bytes the     *)
(* caller may overwrite in between through data_mut and DerefMut.          *)
(***************************************************************************)
PushBytes == {0, 7, 255}

InitPush ==
    /\ bytes = CommandBuf_new.bytes
    /\ used = CommandBuf_new.used
    /\ iter = "new"
    /\ pos = 0
    /\ exhausted = FALSE
    /\ panicked = FALSE
    /\ stream = <<>>
    /\ fed = 0
    /\ amount = 0
    /\ snap = <<>>
    /\ yielded = <<>>
    /\ results = <<>>
    /\ allFull = TRUE
    /\ resynced = FALSE
    /\ compactions = 0
    /\ input = CanFrame_new
    /\ output = <<>>

\* the call input.push(byte): the frame afterwards and the Result returned
Push(byte) ==
    /\ input' = CanFrame_push(input, byte).frame
    /\ output' = <<IF CanFrame_push(input, byte).ok THEN Ok(<<>>) ELSE ErrEof>>
    /\ UNCHANGED <<bytes, used, iter, pos, exhausted, panicked, stream, fed,
                   amount, snap, yielded, results, allFull, resynced,
                   compactions>>

\* what a write through a slice of the frame leaves alone
OnlyFrame ==
    UNCHANGED <<bytes, used, iter, pos, exhausted, panicked, stream, fed,
                amount, snap, yielded, results, allFull, resynced,
                compactions>>

\* `input.data_mut()[i - 1] = byte`: a byte already pushed is overwritten;
\* output is the slice as it reads afterwards
DataMut(i, byte) ==
    /\ i \in CanFrame_data_mut(input)
    /\ input' = [input EXCEPT !.data[i] = byte]
    /\ output' = <<Ok(CanFrame_data(input'))>>
    /\ OnlyFrame

\* `input[i - 1] = byte`, through DerefMut
DerefMut(i, byte) ==
    /\ i \in CanFrame_deref_mut(input)
    /\ input' = [input EXCEPT !.data[i] = byte]
    /\ output' = <<Ok(CanFrame_data(input'))>>
    /\ OnlyFrame

NextPush ==
    \/ \E byte \in PushBytes : Push(byte)
    \/ \E i \in 1..MAX_LENGTH, byte \in PushBytes : DataMut(i, byte)
    \/ \E i \in 1..MAX_LENGTH, byte \in PushBytes : DerefMut(i, byte)

SpecPush == InitPush /\ [][NextPush]_vars

(***************************************************************************)
(* Every public operation that can fail, under one caller: the framer with *)
(* any amount passed to advance_by, Command::decode, the encoders,         *)
(* CanFrame::push and SerialNumber::new_const.  input.kind says which      *)
(* operation the caller exercises.                                         *)
(***************************************************************************)
\* SerialNumber::new_const: indexing a one-element array with 1 panics
SerialNumber_new_const(raw) ==
    IF /\ is_ascii_alphanumeric(raw[1])
       /\ is_ascii_alphanumeric(raw[2])
       /\ is_ascii_alphanumeric(raw[3])
       /\ is_ascii_alphanumeric(raw[4])
    THEN Ok(raw)
    ELSE Panic

RawSerials == [1..4 -> {48, 90, 122, CR}]

FatalInputs ==
    {[kind |-> "Framer"]}
    \cup {[kind |-> "Decode", val |-> s] : s \in DecodeInputs}
    \cup EncodeInputs
    \cup {[kind |-> "Push", val |-> CanFrame_new]}
    \cup {[kind |-> "NewConst", val |-> raw] : raw \in RawSerials}

InitFatal ==
    /\ bytes = CommandBuf_new.bytes
    /\ used = CommandBuf_new.used
    /\ iter = "new"
    /\ pos = 0
    /\ exhausted = FALSE
    /\ panicked = FALSE
    /\ input \in FatalInputs
    /\ stream \in (IF input.kind = "Framer"
                   THEN StreamsOf(1) \cup {TxLen9}
                   ELSE {<<>>})
    /\ fed = 0
    /\ amount = 0
    /\ snap = <<>>
    /\ yielded = <<>>
    /\ results = <<>>
    /\ allFull = TRUE
    /\ resynced = FALSE
    /\ compactions = 0
    /\ output = <<>>

\* the caller exercises the framer
Framing == input.kind = "Framer"

\* the call Command::decode(input.val)
CallDecode ==
    /\ input.kind = "Decode"
    /\ output = <<>>
    /\ output' = <<Command_decode(input.val)>>
    /\ OnlyOutput

\* the call input.val.push(byte)
CallPush(byte) ==
    /\ input.kind = "Push"
    /\ input' = [input EXCEPT !.val = CanFrame_push(input.val, byte).frame]
    /\ output' = <<IF CanFrame_push(input.val, byte).ok
                   THEN Ok(<<>>)
                   ELSE [ok |-> FALSE,
                         kind |-> CanFrame_push(input.val, byte).kind]>>
    /\ UNCHANGED <<bytes, used, iter, pos, exhausted, panicked, stream, fed,
                   amount, snap, yielded, results, allFull, resynced,
                   compactions>>

\* `input.val.data_mut()[i - 1] = byte` and, through DerefMut,
\* `input.val[i - 1] = byte`
CallDataMut(i, byte) ==
    /\ input.kind = "Push"
    /\ i \in CanFrame_data_mut(input.val) \cup CanFrame_deref_mut(input.val)
    /\ input' = [input EXCEPT !.val.data[i] = byte]
    /\ output' = <<Ok(CanFrame_data(input'.val))>>
    /\ OnlyFrame

\* the call SerialNumber::new_const(input.val)
CallNewConst ==
    /\ input.kind = "NewConst"
    /\ output = <<>>
    /\ output' = <<SerialNumber_new_const(input.val)>>
    /\ panicked' = ~SerialNumber_new_const(input.val).ok
    /\ UNCHANGED <<bytes, used, iter, pos, exhausted, stream, fed, amount,
                   snap, yielded, results, allFull, resynced, compactions,
                   input>>

NextFatal ==
    \/ \E amt \in 0..MAX_ENCODED_LEN : Framing /\ Feed(amt)
    \/ Framing /\ IterNext
    \/ Framing /\ ForEnd
    \/ \E amt \in 1..255 : Framing /\ Misuse(amt)
    \/ CallDecode
    \/ EncodeResponse
    \/ EncodeNotification
    \/ EncodeTimestamped
    \/ DecodeEncoding
    \/ \E byte \in PushBytes : CallPush(byte)
    \/ \E i \in 1..MAX_LENGTH, byte \in PushBytes : CallDataMut(i, byte)
    \/ CallNewConst

SpecFatal == InitFatal /\ [][NextFatal]_vars

(***************************************************************************)
(* Reference definitions the claims are stated with.                       *)
(***************************************************************************)
\* the CR-terminated spans of s in order; what follows the last CR is left out
RECURSIVE Spans(_)
Spans(s) ==
    IF NoCR(s) THEN <<>>
    ELSE LET k == CHOOSE i \in 1..Len(s) :
                      s[i] = CR /\ \A j \in 1..(i - 1) : s[j] # CR
         IN <<SubSeq(s, 1, k)>> \o Spans(SubSeq(s, k + 1, Len(s)))

\* what follows the last CR of s
Leftover(s) ==
    LET crs == {i \in 1..Len(s) : s[i] = CR} IN
    IF crs = {} THEN s
    ELSE SubSeq(s, 1 + CHOOSE i \in crs : \A j \in crs : j <= i, Len(s))

DecodeEach(spans) == [i \in 1..Len(spans) |-> Command_decode(spans[i])]

\* a full buffer that holds no CR
Overflowing(s) == Len(s) = MAX_ENCODED_LEN /\ NoCR(s)

\* the results of one advance_by(Len(s)) on a new buffer, drained to the end
RECURSIVE Drain(_, _, _)
Drain(b, u, p) ==
    IF CommandIter_next(b, u, p).item.some
    THEN <<CommandIter_next(b, u, p).item.val>>
         \o Drain(b, u, CommandIter_next(b, u, p).pos)
    ELSE <<>>

OneShot(s) == Drain(copy_from_slice(CommandBuf_new.bytes, 0, s), Len(s), 0)

CompleteCommands(s) ==
    Len(s) \in 1..MAX_ENCODED_LEN /\ s[Len(s)] = CR

\* the buffered bytes
Buffered == SubSeq(bytes, 1, used)

Drained == iter = "open" /\ exhausted

(***************************************************************************)
(* C1: chunk-invariance.  When a stream of complete commands that fits the *)
(* buffer (at most 27 bytes, the last one CR) has been fed in any chunks,  *)
(* each drained to the end, the results are those of feeding it in one     *)
(* advance_by call.                                                        *)
(***************************************************************************)
ChunkInvariance ==
    (Drained /\ allFull /\ fed = Len(stream) /\ CompleteCommands(stream))
        => results = OneShot(stream)

\* a stream of several commands has arrived in more than one chunk
ChunkInvarianceWitness ==
    /\ Drained /\ allFull /\ fed = Len(stream) /\ CompleteCommands(stream)
    /\ Len(snap) < Len(stream)
    /\ amount < Len(snap)
    /\ Len(results) >= 2

(***************************************************************************)
(* C2: resynchronization.  A drain over a full buffer (27 bytes) without   *)
(* CR yields exactly one result, a Decode error; after it the buffer is    *)
(* empty; a valid command appended next is decoded successfully.           *)
(***************************************************************************)
Resynchronization ==
    /\ (Drained /\ Overflowing(snap)) => yielded = <<ErrDecode>>
    /\ (iter = "dropped" /\ exhausted /\ Overflowing(snap)) => used = 0
    /\ (Drained /\ resynced /\ used = amount /\ Buffered = Setup0)
          => yielded = <<Ok([tag |-> "SetupWithBitrate", bitrate |-> "_10kbit"])>>
    /\ (Drained /\ resynced /\ used = amount /\ Buffered = TxExtFull)
          => (Len(yielded) = 1 /\ yielded[1].ok)

\* a command has been decoded right after an overflow was discarded
ResynchronizationWitness ==
    /\ Drained /\ resynced /\ amount = Len(Setup0)
    /\ yielded = <<Ok([tag |-> "SetupWithBitrate", bitrate |-> "_10kbit"])>>
    /\ Len(results) >= 2 /\ results[Len(results) - 1] = ErrDecode

(***************************************************************************)
(* C3: error isolation and ordering.  As claimed: a drain consumed to the  *)
(* end yields exactly one result per CR-terminated span buffered, in       *)
(* order, each the decoding of exactly that span.                          *)
(***************************************************************************)
OneResultPerSpan == Drained => yielded = DecodeEach(Spans(snap))

(***************************************************************************)
(* C3 as amended: the same, except over a full buffer (27 bytes) that      *)
(* holds no CR, where the drain yields one Decode error for no span.       *)
(***************************************************************************)
OneResultPerSpanUnlessOverflow ==
    Drained => yielded = IF Overflowing(snap) THEN <<ErrDecode>>
                         ELSE DecodeEach(Spans(snap))

\* one drain has yielded an error and, after it, a decoded command
OneResultPerSpanWitness ==
    /\ Drained /\ ~Overflowing(snap)
    /\ Len(yielded) >= 2
    /\ \E i \in 1..(Len(yielded) - 1) : ~yielded[i].ok /\ yielded[i + 1].ok

(***************************************************************************)
(* C4: buffer invariant.  Once an iterator consumed to the end has been    *)
(* dropped, bytes[..used] holds no CR.                                     *)
(***************************************************************************)
NoTerminatorLeft == (iter = "dropped" /\ exhausted) => NoCR(Buffered)

\* commands were consumed and the start of a further one was kept
NoTerminatorLeftWitness ==
    /\ iter = "dropped" /\ exhausted
    /\ Len(yielded) >= 1
    /\ used > 0

(***************************************************************************)
(* C5: the compaction runs exactly once per advance_by call on every exit  *)
(* path: not while the iterator is alive, and once when the drain is over, *)
(* whether the iterator was consumed to the end, dropped early or leaked.  *)
(***************************************************************************)
CompactionOnEveryExit ==
    /\ iter = "open" => compactions = 0
    /\ iter \in {"dropped", "leaked"} => compactions = 1

\* the part of C5 that the destructor gives: once the iterator has been
\* dropped, exhausted or not, the compaction has run exactly once
CompactionOnce ==
    /\ iter = "open" => compactions = 0
    /\ iter = "dropped" => compactions = 1

\* an iterator was dropped after its first result with a command still buffered
CompactionOnceWitness ==
    /\ iter = "dropped" /\ ~exhausted
    /\ Len(yielded) = 1
    /\ ~NoCR(Buffered)
    /\ compactions = 1

\* "S0\r" was drained to the end by an iterator that was leaked, and the
\* next drain, with nothing new fed, yields the same command a second time
LeakYieldsTwice ==
    /\ stream = Setup0
    /\ fed = Len(stream)
    /\ iter = "open"
    /\ amount = 0
    /\ compactions = 0
    /\ Len(results) = 2
    /\ results[1] = results[2]
    /\ results[1].ok

(***************************************************************************)
(* C6: waiting for input.  While bytes[pos..used] holds no CR and the      *)
(* buffer is not both full and unscanned, next() yields nothing and        *)
(* reports no error, and the drop keeps exactly those bytes, in order, at  *)
(* the front of the buffer.                                                *)
(***************************************************************************)
WaitsForInput ==
    [][(/\ iter = "open"
        /\ NoCR(SubSeq(bytes, pos + 1, used))
        /\ ~(pos = 0 /\ used = MAX_ENCODED_LEN))
       => /\ iter' = "open" =>
                (yielded' = yielded /\ results' = results /\ exhausted'
                 /\ bytes' = bytes /\ used' = used /\ pos' = pos)
          /\ iter' = "dropped" =>
                SubSeq(bytes', 1, used') = SubSeq(bytes, pos + 1, used)]_vars

\* "S0\rS0" in one chunk: one result, and "S0" is kept
WaitsForInputWitness ==
    /\ iter = "dropped" /\ exhausted
    /\ snap = Setup0 \o Bytes(<<"S", "0">>)
    /\ Len(yielded) = 1
    /\ Buffered = Bytes(<<"S", "0">>)

(***************************************************************************)
(* C7: forward progress.  After every drain consumed to the end, used is   *)
(* below 27: the tail is not empty.                                        *)
(***************************************************************************)
TailNeverEmpty ==
    (iter = "dropped" /\ exhausted) => (used < MAX_ENCODED_LEN /\ tail_mut(used) # {})

\* a full buffer has been drained
TailNeverEmptyWitness ==
    /\ iter = "dropped" /\ exhausted
    /\ Len(snap) = MAX_ENCODED_LEN
    /\ used < MAX_ENCODED_LEN

(***************************************************************************)
(* C8: no operation is fatal.  As claimed: whatever the arguments, no      *)
(* assertion or panic is reached and every failure is a Decode or Eof      *)
(* error value.                                                            *)
(***************************************************************************)
ErrorValue(r) == r.ok \/ r.kind \in {"Decode", "Eof"}

NeverPanics ==
    /\ ~panicked
    /\ \A i \in 1..Len(results) : ErrorValue(results[i])
    /\ \A i \in 1..Len(output) : ErrorValue(output[i])

(***************************************************************************)
(* C8 as amended: the only steps that panic are an advance_by call whose   *)
(* amount is larger than the tail and a new_const call with a byte that is *)
(* not ASCII alphanumeric; new_const returns the serial number otherwise;  *)
(* every result the framer yields and every value Command::decode,         *)
(* CanFrame::push and the encoders return is Ok or a Decode or Eof error   *)
(* value.                                                                  *)
(***************************************************************************)
PanicsOnlyOnMisuse ==
    [][/\ (~panicked /\ panicked')
            => \/ /\ Framing
                  /\ iter # "open"
                  /\ amount' > Cardinality(tail_mut(used))
               \/ /\ input.kind = "NewConst"
                  /\ \E i \in 1..4 : ~is_ascii_alphanumeric(input.val[i])
       /\ \A i \in 1..Len(results') : ErrorValue(results'[i])
       /\ (input.kind = "NewConst" /\ output' # <<>>)
            => output' = <<IF \A i \in 1..4 : input.val[i] \in
                                 (48..57) \cup (65..90) \cup (97..122)
                          THEN Ok(input.val)
                          ELSE Panic>>
       /\ input.kind # "NewConst"
            => \A i \in 1..Len(output') : ErrorValue(output'[i])]_vars

\* the largest legal amount was passed and the failure came back as a value
PanicsOnlyOnMisuseWitness ==
    /\ Framing
    /\ ~panicked
    /\ amount = MAX_ENCODED_LEN
    /\ Drained
    /\ yielded = <<ErrDecode>>

(***************************************************************************)
(* The command grammar of the protocol, written down on its own: which     *)
(* strings are commands, and what a command must say about its string.     *)
(***************************************************************************)
HexDigits == Bytes(<<"0", "1", "2", "3", "4", "5", "6", "7",
                     "8", "9", "A", "B", "C", "D", "E", "F">>)

IsHex(c) == \E i \in 1..16 : HexDigits[i] = c

HexValue(c) == (CHOOSE i \in 1..16 : HexDigits[i] = c) - 1

\* the number a string of hex digits writes, most significant digit first
RECURSIVE HexNumber(_)
HexNumber(ds) ==
    IF ds = <<>> THEN 0
    ELSE 16 * HexNumber(SubSeq(ds, 1, Len(ds) - 1)) + HexValue(ds[Len(ds)])

KbpsOfCode == <<10, 20, 50, 100, 125, 250, 500, 800, 1000>>

IsFrameOp(c) == c \in {Ascii["t"], Ascii["T"], Ascii["r"], Ascii["R"]}

IsDataOp(c) == c \in {Ascii["t"], Ascii["T"]}

\* the number of identifier digits after opcode c
IdDigits(c) == IF c \in {Ascii["T"], Ascii["R"]} THEN 8 ELSE 3

\* a frame command: opcode, identifier, length digit, payload pairs, CR.
\* An 8-digit identifier is at most 1FFFFFFF exactly if its first digit is
\* 0 or 1.
InFrameGrammar(s) ==
    /\ Len(s) >= 1 + IdDigits(s[1]) + 2
    /\ s[Len(s)] = CR
    /\ \A i \in 2..(Len(s) - 1) : IsHex(s[i])
    /\ IF IdDigits(s[1]) = 3
       THEN HexNumber(SubSeq(s, 2, 4)) <= 2047
       ELSE HexValue(s[2]) <= 1
    /\ HexValue(s[2 + IdDigits(s[1])]) <= 8
    /\ Len(s) = 1 + IdDigits(s[1]) + 1
                + (IF IsDataOp(s[1]) THEN 2 * HexValue(s[2 + IdDigits(s[1])])
                   ELSE 0)
                + 1

InGrammar(s) ==
    /\ s # <<>>
    /\ \/ /\ s[1] = Ascii["S"]
          /\ Len(s) = 3 /\ s[2] \in Ascii["0"]..Ascii["8"] /\ s[3] = CR
       \/ /\ s[1] \in {Ascii[c] : c \in {"O", "C", "F", "V", "N"}}
          /\ Len(s) = 2 /\ s[2] = CR
       \/ /\ s[1] = Ascii["Z"]
          /\ Len(s) = 3 /\ s[2] \in {Ascii["0"], Ascii["1"]} /\ s[3] = CR
       \/ IsFrameOp(s[1]) /\ InFrameGrammar(s)

PlainTag ==
    (Ascii["O"] :> "Open") @@ (Ascii["C"] :> "Close") @@
    (Ascii["F"] :> "ReadStatus") @@ (Ascii["V"] :> "ReadVersion") @@
    (Ascii["N"] :> "ReadSerial")

FrameTag ==
    (Ascii["t"] :> "TxStandard") @@ (Ascii["T"] :> "TxExt") @@
    (Ascii["r"] :> "TxStandardRtr") @@ (Ascii["R"] :> "TxExtRtr")

\* the payload bytes the string s of the grammar carries, in wire order
PayloadOf(s) ==
    [i \in 1..HexValue(s[2 + IdDigits(s[1])]) |->
        HexNumber(SubSeq(s, IdDigits(s[1]) + 1 + 2 * i,
                            IdDigits(s[1]) + 2 + 2 * i))]

\* cmd is the command that the string s of the grammar stands for
Describes(cmd, s) ==
    IF s[1] = Ascii["S"]
    THEN /\ cmd.tag = "SetupWithBitrate"
         /\ DOMAIN cmd = {"tag", "bitrate"}
         /\ Bitrate_kbps[cmd.bitrate] = KbpsOfCode[s[2] - Ascii["0"] + 1]
    ELSE IF s[1] = Ascii["Z"]
    THEN cmd = [tag |-> "SetRxTimestamp", timestamp |-> (s[2] = Ascii["1"])]
    ELSE IF IsFrameOp(s[1])
    THEN /\ cmd.tag = FrameTag[s[1]]
         /\ cmd.identifier = HexNumber(SubSeq(s, 2, 1 + IdDigits(s[1])))
         /\ IF IsDataOp(s[1])
            THEN /\ DOMAIN cmd = {"tag", "identifier", "frame"}
                 /\ cmd.frame.len = Len(PayloadOf(s))
                 /\ CanFrame_data(cmd.frame) = PayloadOf(s)
            ELSE /\ DOMAIN cmd = {"tag", "identifier", "len"}
                 /\ cmd.len = HexValue(s[2 + IdDigits(s[1])])
    ELSE cmd = [tag |-> PlainTag[s[1]]]

\* the last hex field of a frame command ends at this index of s: the
\* identifier and the length digit, and the payload the length digit declares
FieldsEnd(s) ==
    LET lenAt == 2 + IdDigits(s[1]) IN
    IF IsDataOp(s[1]) /\ Len(s) >= lenAt /\ IsHex(s[lenAt])
    THEN lenAt + 2 * HexValue(s[lenAt])
    ELSE lenAt

\* the first byte of s after the opcode that is no uppercase hex digit lies
\* in a hex field
NonHexInField(s) ==
    /\ s # <<>>
    /\ IsFrameOp(s[1])
    /\ \E k \in 2..Len(s) :
          /\ ~IsHex(s[k])
          /\ \A j \in 2..(k - 1) : IsHex(s[j])
          /\ k <= FieldsEnd(s)

Opcodes ==
    {Ascii[c] : c \in {"S", "O", "C", "t", "T", "r", "R", "F", "V", "N", "Z"}}

\* the call has returned
Decoded == output # <<>>

(***************************************************************************)
(* C9: Command::decode succeeds exactly on the strings of the command      *)
(* grammar and returns the command the string stands for; an unknown       *)
(* opcode, a byte that is no uppercase hex digit in a hex field, and S9    *)
(* are Decode errors.                                                      *)
(***************************************************************************)
DecodesTheGrammar ==
    Decoded =>
        /\ output[1].ok <=> InGrammar(input)
        /\ output[1].ok => Describes(output[1].val, input)
        /\ (input # <<>> /\ input[1] \notin Opcodes) => output[1] = ErrDecode
        /\ NonHexInField(input) => output[1] = ErrDecode
        /\ (Len(input) >= 2 /\ input[1] = Ascii["S"] /\ input[2] = Ascii["9"])
              => output[1] = ErrDecode

\* the longest command has been decoded: 29-bit identifier, 8 payload bytes
DecodesTheGrammarWitness ==
    /\ Decoded
    /\ input = TxExtFull
    /\ output[1].ok
    /\ output[1].val.identifier = 286331153
    /\ CanFrame_data(output[1].val.frame) = <<65, 66, 67, 68, 69, 70, 71, 72>>

(***************************************************************************)
(* C10: the byte after the fields of a command must be CR and must be the  *)
(* last byte: whatever else stands there, and whatever follows the CR,     *)
(* makes the result a Decode error.                                        *)
(***************************************************************************)
TerminatorIsLast ==
    Decoded =>
        \A k \in 1..(Len(input) - 1) :
            (/\ InGrammar(Append(SubSeq(input, 1, k), CR))
             /\ (input[k + 1] # CR \/ Len(input) > k + 1))
                => output[1] = ErrDecode

\* "C\n" has been refused as malformed
TerminatorIsLastWitness ==
    /\ Decoded
    /\ input = <<Ascii["C"], LF>>
    /\ output = <<ErrDecode>>

(***************************************************************************)
(* C11: every proper prefix of a command of the grammar, the empty input   *)
(* and "C" included, decodes to the Eof error: not to Decode, not to a     *)
(* command.                                                                *)
(***************************************************************************)
Zeros(k) == [i \in 1..k |-> Ascii["0"]]

\* what can be missing of a command: the opcode C and the CR (all of the
\* command, when nothing of it has arrived), or digits 0 up to the CR
Completions ==
    {<<Ascii["C"], CR>>} \cup {Zeros(k) \o <<CR>> : k \in 0..MAX_ENCODED_LEN}

\* s is a proper prefix of a command of the grammar: a completion, which is
\* never empty, makes it one; the empty input is a proper prefix of "C\r"
ProperPrefix(s) == \E rest \in Completions : InGrammar(s \o rest)

TruncatedIsEof ==
    (Decoded /\ ProperPrefix(input)) => output[1] = ErrEof

\* the empty input, a proper prefix of every command, has been reported as
\* Eof
TruncatedIsEofWitness ==
    /\ Decoded
    /\ input = <<>>
    /\ ProperPrefix(input)
    /\ output = <<ErrEof>>

(***************************************************************************)
(* C12: after the opcodes t, T, r and R a length digit 9..F gives the      *)
(* Decode error whatever follows it, and the length of every decoded       *)
(* frame command is in 0..8.                                               *)
(***************************************************************************)
\* the index of the length digit in the frame command s
LenAt(s) == 2 + IdDigits(s[1])

LengthAtMostEight ==
    Decoded =>
        /\ (/\ input # <<>>
            /\ IsFrameOp(input[1])
            /\ Len(input) >= LenAt(input)
            /\ IsHex(input[LenAt(input)])
            /\ HexValue(input[LenAt(input)]) > 8)
              => output[1] = ErrDecode
        /\ (output[1].ok /\ output[1].val.tag \in {"TxStandard", "TxExt"})
              => /\ output[1].val.frame.len \in 0..8
                 /\ Len(CanFrame_data(output[1].val.frame)) \in 0..8
        /\ (output[1].ok /\ output[1].val.tag \in {"TxStandardRtr", "TxExtRtr"})
              => output[1].val.len \in 0..8

\* a remote frame that requests 9 bytes has been refused
LengthAtMostEightWitness ==
    /\ Decoded
    /\ input = Bytes(<<"r", "7", "F", "F", "9">>) \o <<CR>>
    /\ output = <<ErrDecode>>

(***************************************************************************)
(* C13: an identifier field of valid hex digits whose value is above 7FF   *)
(* (t, r) or above 1FFFFFFF (T, R) gives the Decode error, the values 7FF  *)
(* and 1FFFFFFF decode, and every decoded identifier is in its range.      *)
(***************************************************************************)
\* the identifier field of s is complete, of hex digits, and out of range
IdOutOfRange(s) ==
    /\ s # <<>>
    /\ IsFrameOp(s[1])
    /\ Len(s) >= 1 + IdDigits(s[1])
    /\ \A i \in 2..(1 + IdDigits(s[1])) : IsHex(s[i])
    /\ IF IdDigits(s[1]) = 3
       THEN HexNumber(SubSeq(s, 2, 4)) > 2047
       ELSE HexValue(s[2]) >= 2

IdField(s) == SubSeq(s, 2, 1 + IdDigits(s[1]))

IdentifierRange ==
    Decoded =>
        /\ IdOutOfRange(input) => output[1] = ErrDecode
        /\ (/\ InGrammar(input)
            /\ IsFrameOp(input[1])
            /\ IdField(input) = Bytes(<<"7", "F", "F">>))
              => output[1].ok /\ output[1].val.identifier = 2047
        /\ (/\ InGrammar(input)
            /\ IsFrameOp(input[1])
            /\ IdField(input) = Bytes(<<"1", "F", "F", "F", "F", "F", "F", "F">>))
              => output[1].ok /\ output[1].val.identifier = 536870911
        /\ (output[1].ok /\ output[1].val.tag \in {"TxStandard", "TxStandardRtr"})
              => output[1].val.identifier \in 0..2047
        /\ (output[1].ok /\ output[1].val.tag \in {"TxExt", "TxExtRtr"})
              => output[1].val.identifier \in 0..536870911

\* the largest extended identifier has been decoded
IdentifierRangeWitness ==
    /\ Decoded
    /\ input = Bytes(<<"R", "1", "F", "F", "F", "F", "F", "F", "F", "8">>)
                  \o <<CR>>
    /\ output[1].ok
    /\ output[1].val.identifier = 536870911

(***************************************************************************)
(* C14: a data frame command that ends in CR and declares n <= 8 payload   *)
(* bytes, but carries fewer or more hex pairs than n before the CR, gives  *)
(* the Decode error: not Eof, not a command.                               *)
(***************************************************************************)
\* s is a t or T command ending in CR, of hex digits, whose payload has a
\* number of pairs that is not the number its length digit declares
LengthMismatch(s) ==
    /\ s # <<>>
    /\ IsDataOp(s[1])
    /\ Len(s) > LenAt(s)
    /\ s[Len(s)] = CR
    /\ \A i \in 2..(Len(s) - 1) : IsHex(s[i])
    /\ HexValue(s[LenAt(s)]) <= 8
    /\ (Len(s) - 1 - LenAt(s)) % 2 = 0
    /\ Len(s) - 1 - LenAt(s) # 2 * HexValue(s[LenAt(s)])

MismatchIsDecode ==
    (Decoded /\ LengthMismatch(input)) => output[1] = ErrDecode

\* "t7FF1\r", with no payload byte for its declared one, has been refused
MismatchIsDecodeWitness ==
    /\ Decoded
    /\ input = Bytes(<<"t", "7", "F", "F", "1">>) \o <<CR>>
    /\ LengthMismatch(input)
    /\ output = <<ErrDecode>>

(***************************************************************************)
(* The wire text of the encoders, written down on its own.                 *)
(***************************************************************************)
\* value as `digits` uppercase hex digits, most significant first
HexText(value, digits) ==
    [i \in 1..digits |-> HexDigits[((value \div 16^(digits - i)) % 16) + 1]]

\* the bytes of data as hex pairs, in the order of data
PairsText(data) ==
    [i \in 1..(2 * Len(data)) |->
        HexText(data[(i + 1) \div 2], 2)[IF i % 2 = 1 THEN 1 ELSE 2]]

ExpectedResponse(resp) ==
    CASE resp.tag = "Error" -> <<7>>
      [] resp.tag = "Ack" -> <<CR>>
      [] resp.tag = "TxAck" -> <<Ascii["z"], CR>>
      [] resp.tag = "ExtTxAck" -> <<Ascii["Z"], CR>>
      [] resp.tag = "Status" ->
            <<Ascii["F"]>> \o HexText(resp.bits, 2) \o <<CR>>
      [] resp.tag = "Version" ->
            <<Ascii["V"]>> \o HexText(resp.hardware_version, 2)
                \o HexText(resp.software_version, 2) \o <<CR>>
      [] resp.tag = "Serial" -> <<Ascii["N"]>> \o resp.serial \o <<CR>>

NotifOpcode ==
    ("Rx" :> Ascii["t"]) @@ ("RxExt" :> Ascii["T"]) @@
    ("RxRtr" :> Ascii["r"]) @@ ("RxExtRtr" :> Ascii["R"])

IsExtNotif(notif) == notif.tag \in {"RxExt", "RxExtRtr"}

IsDataNotif(notif) == notif.tag \in {"Rx", "RxExt"}

\* opcode and identifier of the notification
ExpectedHead(notif) ==
    <<NotifOpcode[notif.tag]>>
        \o HexText(notif.identifier, IF IsExtNotif(notif) THEN 8 ELSE 3)

\* text is the wire text of the notification as the encoder writes it: for a
\* remote frame the one hex digit after the identifier is that of the low
\* nibble of the length, which is the length itself up to 15
IsNotificationText(text, notif) ==
    IF IsDataNotif(notif)
    THEN text = ExpectedHead(notif)
                  \o HexText(Len(CanFrame_data(notif.frame)), 1)
                  \o PairsText(CanFrame_data(notif.frame))
    ELSE text = ExpectedHead(notif) \o <<HexDigits[(notif.len % 16) + 1]>>

\* text is the wire text of the notification with the one hex digit of a
\* remote frame standing for the length itself, whatever the length
IsNotificationTextOfLength(text, notif) ==
    IF IsDataNotif(notif)
    THEN IsNotificationText(text, notif)
    ELSE /\ Len(text) = Len(ExpectedHead(notif)) + 1
         /\ SubSeq(text, 1, Len(text) - 1) = ExpectedHead(notif)
         /\ IsHex(text[Len(text)])
         /\ HexValue(text[Len(text)]) = notif.len

\* the encoder has returned
Encoded == output # <<>>

(***************************************************************************)
(* C15: Response::encode never fails and returns exactly the wire text of  *)
(* the response: BEL alone for error, otherwise the letter, the fields     *)
(* (hex uppercase, zero-padded, most significant nibble first; the serial  *)
(* number raw) and CR; at most 6 bytes.                                    *)
(***************************************************************************)
ResponseEncoding ==
    (Encoded /\ input.kind = "Response") =>
        /\ output[1] = Ok(ExpectedResponse(input.val))
        /\ Len(output[1].val) <= 6

\* a version response with the digits A, B and F has been encoded
ResponseEncodingWitness ==
    /\ Encoded
    /\ input.kind = "Response"
    /\ input.val = [tag |-> "Version", hardware_version |-> 171,
                    software_version |-> 15]
    /\ output[1] = Ok(Bytes(<<"V", "A", "B", "0", "F">>) \o <<CR>>)

(***************************************************************************)
(* C16 as stated: Notification::encode never fails and returns exactly     *)
(* opcode, identifier (3 or 8 uppercase hex digits) and, for a data frame, *)
(* the length digit and the payload as hex pairs in order, for a remote    *)
(* frame one hex digit that is the length; at most MAX_NOTIF_LEN bytes.    *)
(* A remote length above 15 has no hex digit.                              *)
(***************************************************************************)
NotificationEncodingOfLength ==
    (Encoded /\ input.kind = "Notification") =>
        /\ output[1].ok
        /\ IsNotificationTextOfLength(output[1].val, input.val)
        /\ Len(output[1].val) <= MAX_NOTIF_LEN

(***************************************************************************)
(* C16, amended: Notification::encode never fails and returns exactly      *)
(* opcode, identifier (3 or 8 uppercase hex digits) and, for a data frame, *)
(* the length digit and the payload as hex pairs in order, for a remote    *)
(* frame the hex digit of the length modulo 16 (the length itself up to    *)
(* 15); at most MAX_NOTIF_LEN bytes.                                       *)
(***************************************************************************)
NotificationEncoding ==
    (Encoded /\ input.kind = "Notification") =>
        /\ output[1].ok
        /\ IsNotificationText(output[1].val, input.val)
        /\ Len(output[1].val) <= MAX_NOTIF_LEN

\* an extended remote frame of length 16 has been encoded, with the digit 0
NotificationEncodingWitness ==
    /\ Encoded
    /\ input.kind = "Notification"
    /\ input.val = [tag |-> "RxExtRtr", identifier |-> 536870911, len |-> 16]
    /\ output[1] = Ok(Bytes(<<"R", "1", "F", "F", "F", "F", "F", "F", "F",
                              "0">>))

(***************************************************************************)
(* C17: every encoded notification, plain or timestamped, ends with the    *)
(* byte CR, and of the responses only the error response does not.         *)
(***************************************************************************)
EndsWithCR ==
    Encoded =>
        /\ output[1].ok
        /\ output[1].val # <<>>
        /\ IF input.kind = "Response" /\ input.val.tag = "Error"
           THEN output[1].val[Len(output[1].val)] # CR
           ELSE output[1].val[Len(output[1].val)] = CR

(***************************************************************************)
(* C18: the encoding of a notification with a CR appended decodes to the   *)
(* analogous transmit command, with the same identifier and the same       *)
(* payload or requested length.                                            *)
(***************************************************************************)
AnalogousTag ==
    ("Rx" :> "TxStandard") @@ ("RxExt" :> "TxExt") @@
    ("RxRtr" :> "TxStandardRtr") @@ ("RxExtRtr" :> "TxExtRtr")

Analogous(notif) ==
    IF IsDataNotif(notif)
    THEN [tag |-> AnalogousTag[notif.tag], identifier |-> notif.identifier,
          frame |-> notif.frame]
    ELSE [tag |-> AnalogousTag[notif.tag], identifier |-> notif.identifier,
          len |-> notif.len]

\* Command::decode has been called on the encoding
DecodedBack == Len(output) = 2

\* as claimed: for every value of the remote length
RoundTrip ==
    (DecodedBack /\ input.kind = "Notification") =>
        output[2] = Ok(Analogous(input.val))

\* for the remote lengths 0..8
RoundTripInRange ==
    (/\ DecodedBack
     /\ input.kind = "Notification"
     /\ ~IsDataNotif(input.val) => input.val.len <= 8)
        => output[2] = Ok(Analogous(input.val))

\* an extended remote frame of length 8 has made the round trip
RoundTripInRangeWitness ==
    /\ DecodedBack
    /\ input.kind = "Notification"
    /\ input.val = [tag |-> "RxExtRtr", identifier |-> 536870911, len |-> 8]
    /\ output[2].ok
    /\ output[2].val.tag = "TxExtRtr"

(***************************************************************************)
(* C19: TimestampedNotification::encode returns the encoding of the        *)
(* notification followed by the timestamp as 4 uppercase hex digits, for   *)
(* every 16-bit timestamp, without error, in at most 31 bytes.             *)
(***************************************************************************)
TimestampedEncoding ==
    (Encoded /\ input.kind = "Timestamped") =>
        /\ output[1].ok
        /\ IsNotificationText(
              SubSeq(output[1].val, 1, Len(output[1].val) - 4),
              input.val.notif)
        /\ output[1].val = Notification_encode(input.val.notif).val
                              \o HexText(input.val.timestamp, 4)
        /\ Len(output[1].val) <= 31

\* the longest notification has been encoded with a timestamp above EA5F
TimestampedEncodingWitness ==
    /\ Encoded
    /\ input.kind = "Timestamped"
    /\ input.val.timestamp = 60000
    /\ Len(output[1].val) = 30
    /\ SubSeq(output[1].val, 27, 30) = Bytes(<<"E", "A", "6", "0">>)

(***************************************************************************)
(* C20: CanFrame::push on a frame of length n < 8 stores the byte at index *)
(* n, keeps the bytes before it and makes the length n + 1; on a frame of  *)
(* length 8 it returns an error and changes nothing; the length never      *)
(* exceeds 8.                                                              *)
(***************************************************************************)
PushAppends ==
    [][/\ input'.len <= 8
       /\ \A byte \in PushBytes :
            Push(byte) =>
                IF input.len < 8
                THEN /\ output' = <<Ok(<<>>)>>
                     /\ input'.len = input.len + 1
                     /\ input'.data[input.len + 1] = byte
                     /\ \A i \in 1..input.len :
                            input'.data[i] = input.data[i]
                ELSE /\ ~output'[1].ok
                     /\ input' = input]_vars

\* a push on a full frame has been refused
PushAppendsWitness ==
    /\ input.len = 8
    /\ input.data = <<7, 255, 0, 7, 255, 0, 7, 255>>
    /\ output = <<ErrEof>>

(***************************************************************************)
(* The framer as a function of the stream alone: a span is cut at each CR, *)
(* and 27 bytes without a CR are cut off as one Decode error.              *)
(***************************************************************************)
\* the index of the first CR among the first 27 bytes of s, or 0
FirstCR(s) ==
    LET crs == {i \in 1..Min(Len(s), MAX_ENCODED_LEN) : s[i] = CR} IN
    IF crs = {} THEN 0 ELSE CHOOSE i \in crs : \A j \in crs : i <= j

RECURSIVE Framed(_)
Framed(s) ==
    IF FirstCR(s) > 0
    THEN <<Command_decode(SubSeq(s, 1, FirstCR(s)))>>
         \o Framed(SubSeq(s, FirstCR(s) + 1, Len(s)))
    ELSE IF Len(s) >= MAX_ENCODED_LEN
    THEN <<ErrDecode>> \o Framed(SubSeq(s, MAX_ENCODED_LEN + 1, Len(s)))
    ELSE <<>>

\* the bytes of the stream fed so far
Fed == SubSeq(stream, 1, fed)

\* the number of bytes the results yielded by the live iterator stand for:
\* their spans, or the whole buffer after an overflow
RECURSIVE SpanBytes(_, _)
SpanBytes(spans, k) ==
    IF k = 0 THEN 0 ELSE Len(spans[k]) + SpanBytes(spans, k - 1)

Consumed ==
    IF Overflowing(snap)
    THEN (IF yielded = <<>> THEN 0 ELSE MAX_ENCODED_LEN)
    ELSE SpanBytes(Spans(snap), Len(yielded))

(***************************************************************************)
(* C21: compaction effect.  When the iterator is dropped after consuming c *)
(* bytes, used becomes the old used minus c and bytes[..used] are the old  *)
(* bytes[c..used] in order; after an overflow c is 27 and nothing is left. *)
(***************************************************************************)
CompactionEffect ==
    [][(iter = "open" /\ iter' = "dropped") =>
          /\ pos = Consumed
          /\ used' = used - Consumed
          /\ SubSeq(bytes', 1, used') = SubSeq(snap, Consumed + 1, Len(snap))
          /\ (Overflowing(snap) /\ yielded # <<>>) => used' = 0]_vars

\* "S0\rS0\r": dropped after the first result, the second command is kept
CompactionEffectWitness ==
    /\ iter = "dropped"
    /\ snap = Setup0 \o Setup0
    /\ Len(yielded) = 1
    /\ Buffered = Setup0

(***************************************************************************)
(* C22: stream-level chunk independence.  With a full drain after every    *)
(* chunk, the results so far are a function of the bytes fed so far, not   *)
(* of the chunks they came in: overflow errors and what they discard       *)
(* included.                                                               *)
(***************************************************************************)
ChunkIndependence ==
    (Drained /\ allFull) => results = Framed(Fed)

\* 27 bytes without CR and then a command, the last chunk being its CR
ChunkIndependenceWitness ==
    /\ Drained /\ allFull
    /\ stream = Fill \o Setup0
    /\ fed = Len(stream)
    /\ amount = 1
    /\ results = <<ErrDecode,
                   Ok([tag |-> "SetupWithBitrate", bitrate |-> "_10kbit"])>>

(***************************************************************************)
(* C24: bounds invariant.  With every advance_by amount within the tail,   *)
(* 0 <= pos <= used <= 27 holds while an iterator is alive and used <= 27  *)
(* always; no assertion, subtraction or slice index fails.                 *)
(***************************************************************************)
BoundsInvariant ==
    /\ ~panicked
    /\ 0 <= used /\ used <= MAX_ENCODED_LEN
    /\ iter = "open" => (0 <= pos /\ pos <= used)
    /\ amount <= MAX_ENCODED_LEN

\* a command of 27 bytes has been consumed: pos = used = 27
BoundsInvariantWitness ==
    /\ iter = "open"
    /\ pos = MAX_ENCODED_LEN
    /\ used = MAX_ENCODED_LEN
    /\ Len(yielded) = 1
    /\ yielded[1].ok

(***************************************************************************)
(* C25: early abandonment loses nothing.  Dropping an iterator leaves in   *)
(* the buffer exactly the results it would still have yielded, and after   *)
(* any abandonments a full drain has yielded, in all, the results of the   *)
(* bytes fed: none skipped, none twice.                                    *)
(***************************************************************************)
AbandonmentLosesNothing ==
    [][/\ (iter = "open" /\ iter' = "dropped")
            => Drain(bytes', used', 0) = Drain(bytes, used, pos)
       /\ (iter = "open" /\ ~exhausted /\ exhausted')
            => results' = Framed(SubSeq(stream', 1, fed'))]_vars

\* an iterator was dropped before its first result and the command came
\* from the next one
AbandonmentLosesNothingWitness ==
    /\ Drained
    /\ ~allFull
    /\ amount = 0
    /\ Len(yielded) >= 1
    /\ results = yielded

(***************************************************************************)
(* C23: the framer never reports Eof.  Every error the iterator yields is  *)
(* a Decode error, also for a command that was cut short before its CR;    *)
(* a command whose CR has not arrived yields nothing.                      *)
(***************************************************************************)
NeverEof ==
    /\ \A i \in 1..Len(results) : ~results[i].ok => results[i] = ErrDecode
    /\ (Drained /\ NoCR(snap) /\ ~Overflowing(snap)) => yielded = <<>>

\* "t7FF" and a CR: the missing length is reported as a Decode error
NeverEofWitness ==
    /\ Drained
    /\ Len(snap) > 5
    /\ SubSeq(snap, 1, 5) = Bytes(<<"t", "7", "F", "F">>) \o <<CR>>
    /\ NoCR(SubSeq(snap, 6, Len(snap)))
    /\ yielded = <<ErrDecode>>

====
